---- MODULE Spec2Model ----
(***************************************************************************)
(* Model of dekokun/roogle-index-prototype.                                *)
(*                                                                         *)
(*   src/src/signature_builder.rs  the serde data model of a rustdoc type  *)
(*                                 (untagged enum Type with the catch-all  *)
(*                                 Other(Value)) and the renderer          *)
(*                                 type_to_string / function_sig_to_string *)
(*   src/src/rustdoc_json.rs       Item and item_to_signature_string       *)
(*   src/src/main.rs               RoogleIndex (new, add_item,             *)
(*                                 search_by_name)                         *)
(*                                                                         *)
(* A Rust String is a sequence of one-character strings, so that           *)
(* concatenation, comparison with "()" and str::contains are computed on   *)
(* characters.  A serde_json::Value is a record tagged by k; an object is  *)
(* a function from its keys (Strings) to Values, iterated in the byte      *)
(* order of the keys as serde_json's default BTreeMap does.                *)
(***************************************************************************)
EXTENDS Integers, Sequences, FiniteSets, TLC

VARIABLES pc, tjson, ty, tstr, item, sig, sigstr, items, found, added

vars == <<pc, tjson, ty, tstr, item, sig, sigstr, items, found, added>>

(***************************************************************************)
(* Bounds of the model.                                                    *)
(***************************************************************************)
\* nesting depth of the generated type values
MaxDepth == 2
\* number of parameters of a generated function signature
MaxParams == 2
\* number of add_item calls on one index
MaxItems == 3

(***************************************************************************)
(* Strings.                                                                *)
(***************************************************************************)
\* the characters that occur in the model, in ASCII order
Alphabet ==
  << " ", "\"", "&", "'", "(", ")", "*", ",", "-", "/", "0", "1", "2", "3", "4",
     "5", "6", "7", "8", "9", ":", "<", ">", "T", "V", "[", "\\", "]", "_",
     "a", "b", "c", "d", "e", "f", "g", "h", "i", "j", "k", "l", "m", "n",
     "o", "p", "q", "r", "s", "t", "u", "v", "w", "x", "y", "z", "{", "}" >>

Ord(c) == CHOOSE i \in 1..Len(Alphabet) : Alphabet[i] = c

\* Ord for String: byte-wise lexicographic order, a proper prefix first
RECURSIVE StrLess(_, _)
StrLess(s, t) ==
  IF t = <<>> THEN FALSE
  ELSE IF s = <<>> THEN TRUE
  ELSE IF Head(s) = Head(t) THEN StrLess(Tail(s), Tail(t))
  ELSE Ord(Head(s)) < Ord(Head(t))

\* [String]::join(sep)
RECURSIVE Join(_, _)
Join(parts, sep) ==
  IF parts = <<>> THEN <<>>
  ELSE IF Len(parts) = 1 THEN parts[1]
  ELSE parts[1] \o sep \o Join(Tail(parts), sep)

\* str::starts_with
StartsWith(s, p) == Len(p) <= Len(s) /\ SubSeq(s, 1, Len(p)) = p

\* str::contains: scan the start positions from the left
RECURSIVE StrContains(_, _)
StrContains(s, p) ==
  IF Len(s) < Len(p) THEN FALSE
  ELSE IF StartsWith(s, p) THEN TRUE
  ELSE StrContains(Tail(s), p)

\* Option<T>
None == <<>>
Some(x) == <<x>>
IsSome(o) == o # <<>>
Unwrap(o) == o[1]

\* Result<T, E>
Ok(x) == [ok |-> TRUE, val |-> x]
Err(e) == [ok |-> FALSE, val |-> e]

(***************************************************************************)
(* serde_json::Value.                                                      *)
(***************************************************************************)
JNull == [k |-> "null"]
JBool(b) == [k |-> "bool", v |-> b]
JNum(n) == [k |-> "num", v |-> n]
JStr(s) == [k |-> "str", v |-> s]
JArr(a) == [k |-> "arr", v |-> a]
JObj(f) == [k |-> "obj", v |-> f]

IsObj(j) == j.k = "obj"
HasKey(j, key) == IsObj(j) /\ key \in DOMAIN j.v

\* the keys of a map in BTreeMap iteration order
RECURSIVE SortedKeys(_)
SortedKeys(S) ==
  IF S = {} THEN <<>>
  ELSE LET m == CHOOSE x \in S : \A y \in S \ {x} : StrLess(x, y)
       IN <<m>> \o SortedKeys(S \ {m})

\* decimal text of a u64
RECURSIVE NatText(_)
NatText(n) ==
  IF n < 10 THEN <<Alphabet[Ord("0") + n]>>
  ELSE NatText(n \div 10) \o <<Alphabet[Ord("0") + (n % 10)]>>

\* serde_json's string escaping, for the characters of the alphabet
RECURSIVE Escape(_)
Escape(s) ==
  IF s = <<>> THEN <<>>
  ELSE (IF Head(s) = "\"" THEN <<"\\", "\"">>
        ELSE IF Head(s) = "\\" THEN <<"\\", "\\">>
        ELSE <<Head(s)>>) \o Escape(Tail(s))

Quoted(s) == <<"\"">> \o Escape(s) \o <<"\"">>

\* impl Display for Value: the compact JSON text
RECURSIVE JsonText(_)
JsonText(j) ==
  CASE j.k = "null" -> <<"n", "u", "l", "l">>
    [] j.k = "bool" -> IF j.v THEN <<"t", "r", "u", "e">>
                       ELSE <<"f", "a", "l", "s", "e">>
    [] j.k = "num" -> NatText(j.v)
    [] j.k = "str" -> Quoted(j.v)
    [] j.k = "arr" ->
         <<"[">> \o Join([i \in 1..Len(j.v) |-> JsonText(j.v[i])], <<",">>)
                 \o <<"]">>
    [] j.k = "obj" ->
         LET ks == SortedKeys(DOMAIN j.v)
         IN <<"{">> \o Join([i \in 1..Len(ks) |->
                               Quoted(ks[i]) \o <<":">> \o JsonText(j.v[ks[i]])],
                            <<",">>)
                    \o <<"}">>

(***************************************************************************)
(* The JSON keys the deserializers look up.                                *)
(***************************************************************************)
K_borrowed_ref == <<"b","o","r","r","o","w","e","d","_","r","e","f">>
K_resolved_path == <<"r","e","s","o","l","v","e","d","_","p","a","t","h">>
K_generic == <<"g","e","n","e","r","i","c">>
K_primitive == <<"p","r","i","m","i","t","i","v","e">>
K_tuple == <<"t","u","p","l","e">>
K_slice == <<"s","l","i","c","e">>
K_is_mutable == <<"i","s","_","m","u","t","a","b","l","e">>
K_lifetime == <<"l","i","f","e","t","i","m","e">>
K_type == <<"t","y","p","e">>
K_name == <<"n","a","m","e">>
K_args == <<"a","r","g","s">>
K_angle_bracketed == <<"a","n","g","l","e","_","b","r","a","c","k","e","t","e","d">>
K_constraints == <<"c","o","n","s","t","r","a","i","n","t","s">>
K_inputs == <<"i","n","p","u","t","s">>
K_output == <<"o","u","t","p","u","t">>
K_is_c_variadic == <<"i","s","_","c","_","v","a","r","i","a","d","i","c">>

(***************************************************************************)
(* signature_builder.rs: the decoded data model.                           *)
(***************************************************************************)
BorrowedRef(b) == [tag |-> "BorrowedRef", borrowed_ref |-> b]
ResolvedPath(r) == [tag |-> "ResolvedPath", resolved_path |-> r]
Generic(s) == [tag |-> "Generic", generic |-> s]
Primitive(s) == [tag |-> "Primitive", primitive |-> s]
Tuple(ts) == [tag |-> "Tuple", tuple |-> ts]
Slice(t) == [tag |-> "Slice", slice |-> t]
Other(val) == [tag |-> "Other", val |-> val]

\* GenericArgs::AngleBracketed and GenericArg::Type, the only variants
AngleBracketed(a) == [tag |-> "AngleBracketed", angle_bracketed |-> a]
GenericArgType(t) == [tag |-> "Type", type |-> t]

(***************************************************************************)
(* Deserialization, as serde's derive generates it.  A struct takes a map  *)
(* (unknown keys ignored, a missing key is an error unless the field is an *)
(* Option or has #[serde(default)]) or a sequence of its fields in order;  *)
(* a struct variant of an untagged enum takes a map only; an untagged enum *)
(* buffers the value and returns the first variant that deserializes.      *)
(***************************************************************************)
\* the value of a variant or of a struct, by the name of its constructor
Construct(kind, x) ==
  CASE kind = "Some" -> Some(x)
    [] kind = "BorrowedRef" -> BorrowedRef(x)
    [] kind = "ResolvedPath" -> ResolvedPath(x)
    [] kind = "Generic" -> Generic(x)
    [] kind = "Primitive" -> Primitive(x)
    [] kind = "Tuple" -> Tuple(x)
    [] kind = "Slice" -> Slice(x)
    [] kind = "AngleBracketed" -> AngleBracketed(x)
    [] kind = "GenericArg::Type" -> GenericArgType(x)
    [] kind = "BorrowedRefType" ->
         [is_mutable |-> x[1], lifetime |-> x[2], inner_type |-> x[3]]
    [] kind = "ResolvedPathStruct" -> [name |-> x[1], args |-> x[2]]
    [] kind = "AngleBracketedArgs" -> [args |-> x[1], constraints |-> x[2]]
    [] kind = "Param" -> <<x[1], x[2]>>
    [] kind = "FunctionSig" ->
         [inputs |-> x[1], output |-> x[2], is_c_variadic |-> x[3]]
    [] kind = "Function" -> [sig |-> x[1]]
    [] kind = "ItemInner" -> [function |-> x[1]]
    [] kind = "Item" -> [name |-> x[1], docs |-> x[2], inner |-> x[3]]

\* Result::map with a constructor
MapOk(r, kind) == IF r.ok THEN Ok(Construct(kind, r.val)) ELSE r

\* the first error of the fields of a struct, or the struct
Build1(a, kind) == IF ~a.ok THEN a ELSE Ok(Construct(kind, <<a.val>>))

Build2(a, b, kind) ==
  IF ~a.ok THEN a ELSE IF ~b.ok THEN b
  ELSE Ok(Construct(kind, <<a.val, b.val>>))

Build3(a, b, c, kind) ==
  IF ~a.ok THEN a ELSE IF ~b.ok THEN b ELSE IF ~c.ok THEN c
  ELSE Ok(Construct(kind, <<a.val, b.val, c.val>>))

\* The values of a struct's fields, in declaration order: from a map by key, or
\* from a sequence by position (seqMin is the position of the last field that
\* has no #[serde(default)]; surplus elements are an error).
StructFields(j, keys, seqMin) ==
  CASE j.k = "obj" ->
         Ok([i \in 1..Len(keys) |->
               IF keys[i] \in DOMAIN j.v THEN Some(j.v[keys[i]]) ELSE None])
    [] j.k = "arr" ->
         IF Len(j.v) < seqMin \/ Len(j.v) > Len(keys) THEN Err("invalid length")
         ELSE Ok([i \in 1..Len(keys) |->
                    IF i <= Len(j.v) THEN Some(j.v[i]) ELSE None])
    [] OTHER -> Err("invalid type")

\* a field that is missing: the default of a field of type Option<_> or with
\* #[serde(default)], an error for any other
Missing == Err("missing field")

\* the elements of a Vec<T>, or the first error
Collect(rs) ==
  IF \E i \in 1..Len(rs) : ~rs[i].ok
  THEN rs[CHOOSE i \in 1..Len(rs) :
            ~rs[i].ok /\ \A h \in 1..(i - 1) : rs[h].ok]
  ELSE Ok([i \in 1..Len(rs) |-> rs[i].val])

DecodeString(j) == IF j.k = "str" THEN Ok(j.v) ELSE Err("invalid type")

DecodeBool(j) == IF j.k = "bool" THEN Ok(j.v) ELSE Err("invalid type")

DecodeOptionString(j) ==
  IF j.k = "null" THEN Ok(None) ELSE MapOk(DecodeString(j), "Some")

DecodeVecString(j) ==
  IF j.k # "arr" THEN Err("invalid type")
  ELSE Collect([i \in 1..Len(j.v) |-> DecodeString(j.v[i])])

RECURSIVE DecodeType(_)

\* struct BorrowedRefType { is_mutable, lifetime, #[serde(rename = "type")] inner_type }
BorrowedRefType(m, l, t) == Construct("BorrowedRefType", <<m, l, t>>)

\* mutant: inner_type falls back to a default when the key is missing
BorrowedRefTypeFields_DefaultInner(fs) ==
  Build3((IF IsSome(fs[1]) THEN DecodeBool(Unwrap(fs[1])) ELSE Missing),
         (IF IsSome(fs[2]) THEN DecodeOptionString(Unwrap(fs[2])) ELSE Ok(None)),
         (IF IsSome(fs[3]) THEN DecodeType(Unwrap(fs[3])) ELSE Ok(Other(JNull))),
         "BorrowedRefType")

BorrowedRefTypeFields(fs) ==
  Build3((IF IsSome(fs[1]) THEN DecodeBool(Unwrap(fs[1])) ELSE Missing),
         (IF IsSome(fs[2]) THEN DecodeOptionString(Unwrap(fs[2])) ELSE Ok(None)),
         (IF IsSome(fs[3]) THEN DecodeType(Unwrap(fs[3])) ELSE Missing),
         "BorrowedRefType")

DecodeBorrowedRefType(j) ==
  LET fs == StructFields(j, <<K_is_mutable, K_lifetime, K_type>>, 3)
  IN IF fs.ok THEN BorrowedRefTypeFields(fs.val) ELSE fs

\* enum GenericArg (untagged) { Type { type } }
DecodeGenericArg(j) ==
  IF HasKey(j, K_type)
  THEN MapOk(DecodeType(j.v[K_type]), "GenericArg::Type")
  ELSE Err("data did not match any variant of untagged enum GenericArg")

DecodeVecGenericArg(j) ==
  IF j.k # "arr" THEN Err("invalid type")
  ELSE Collect([i \in 1..Len(j.v) |-> DecodeGenericArg(j.v[i])])

\* struct AngleBracketedArgs { #[serde(default)] args, #[serde(default)] constraints }
AngleBracketedArgs(a, c) == Construct("AngleBracketedArgs", <<a, c>>)

AngleBracketedArgsFields(fs) ==
  Build2((IF IsSome(fs[1]) THEN DecodeVecGenericArg(Unwrap(fs[1])) ELSE Ok(<<>>)),
         (IF IsSome(fs[2]) THEN DecodeVecString(Unwrap(fs[2])) ELSE Ok(<<>>)),
         "AngleBracketedArgs")

DecodeAngleBracketedArgs(j) ==
  LET fs == StructFields(j, <<K_args, K_constraints>>, 0)
  IN IF fs.ok THEN AngleBracketedArgsFields(fs.val) ELSE fs

\* enum GenericArgs (untagged) { AngleBracketed { angle_bracketed } }
DecodeGenericArgs(j) ==
  IF HasKey(j, K_angle_bracketed)
  THEN MapOk(DecodeAngleBracketedArgs(j.v[K_angle_bracketed]), "AngleBracketed")
  ELSE Err("data did not match any variant of untagged enum GenericArgs")

DecodeOptionGenericArgs(j) ==
  IF j.k = "null" THEN Ok(None) ELSE MapOk(DecodeGenericArgs(j), "Some")

\* struct ResolvedPath { name, args: Option<GenericArgs> }
ResolvedPathStruct(n, a) == Construct("ResolvedPathStruct", <<n, a>>)

ResolvedPathFields(fs) ==
  Build2((IF IsSome(fs[1]) THEN DecodeString(Unwrap(fs[1])) ELSE Missing),
         (IF IsSome(fs[2]) THEN DecodeOptionGenericArgs(Unwrap(fs[2])) ELSE Ok(None)),
         "ResolvedPathStruct")

DecodeResolvedPath(j) ==
  LET fs == StructFields(j, <<K_name, K_args>>, 2)
  IN IF fs.ok THEN ResolvedPathFields(fs.val) ELSE fs

DecodeVecType(j) ==
  IF j.k # "arr" THEN Err("invalid type")
  ELSE Collect([i \in 1..Len(j.v) |-> DecodeType(j.v[i])])

\* the variants of enum Type, each tried on the buffered value
TryBorrowedRef(j) ==
  IF HasKey(j, K_borrowed_ref)
  THEN MapOk(DecodeBorrowedRefType(j.v[K_borrowed_ref]), "BorrowedRef")
  ELSE Err("missing field borrowed_ref")

TryResolvedPath(j) ==
  IF HasKey(j, K_resolved_path)
  THEN MapOk(DecodeResolvedPath(j.v[K_resolved_path]), "ResolvedPath")
  ELSE Err("missing field resolved_path")

TryGeneric(j) ==
  IF HasKey(j, K_generic)
  THEN MapOk(DecodeString(j.v[K_generic]), "Generic")
  ELSE Err("missing field generic")

TryPrimitive(j) ==
  IF HasKey(j, K_primitive)
  THEN MapOk(DecodeString(j.v[K_primitive]), "Primitive")
  ELSE Err("missing field primitive")

TryTuple(j) ==
  IF HasKey(j, K_tuple)
  THEN MapOk(DecodeVecType(j.v[K_tuple]), "Tuple")
  ELSE Err("missing field tuple")

\* mutant: the element of a slice must be a recognized type
TrySlice_Strict(j) ==
  IF HasKey(j, K_slice) /\ DecodeType(j.v[K_slice]).val.tag # "Other"
  THEN MapOk(DecodeType(j.v[K_slice]), "Slice")
  ELSE Err("missing field slice")

TrySlice(j) ==
  IF HasKey(j, K_slice)
  THEN MapOk(DecodeType(j.v[K_slice]), "Slice")
  ELSE Err("missing field slice")

\* mutant: no catch-all variant
TryOther_Fails(j) == Err("data did not match any variant of untagged enum Type")

\* Other(Value): every value deserializes to a Value
TryOther(j) == Ok(Other(j))

\* mutant: Primitive declared before Generic
TypeVariants_PrimitiveFirst ==
  <<"BorrowedRef", "ResolvedPath", "Primitive", "Generic", "Tuple", "Slice",
    "Other">>

\* the variants in declaration order
TypeVariants == <<"BorrowedRef", "ResolvedPath", "Generic", "Primitive",
                  "Tuple", "Slice", "Other">>

TryVariant(name, j) ==
  CASE name = "BorrowedRef" -> TryBorrowedRef(j)
    [] name = "ResolvedPath" -> TryResolvedPath(j)
    [] name = "Generic" -> TryGeneric(j)
    [] name = "Primitive" -> TryPrimitive(j)
    [] name = "Tuple" -> TryTuple(j)
    [] name = "Slice" -> TrySlice(j)
    [] name = "Other" -> TryOther(j)

\* #[serde(untagged)]: the results of the variants that deserialize, in order
RECURSIVE Matches(_, _)
Matches(order, j) ==
  IF order = <<>> THEN <<>>
  ELSE SelectSeq(<<TryVariant(Head(order), j)>>, LAMBDA r : r.ok)
         \o Matches(Tail(order), j)

\* the first of them, or the error of the enum
FirstOr(rs, e) == IF rs = <<>> THEN Err(e) ELSE Head(rs)

\* #[serde(untagged)] enum Type: the first variant that deserializes
DecodeType(j) ==
  FirstOr(Matches(TypeVariants, j),
          "data did not match any variant of untagged enum Type")

(***************************************************************************)
(* signature_builder.rs: FunctionSig, and rustdoc_json.rs: Item.           *)
(***************************************************************************)
K_docs == <<"d","o","c","s">>
K_inner == <<"i","n","n","e","r">>
K_function == <<"f","u","n","c","t","i","o","n">>
K_sig == <<"s","i","g">>

\* (String, Type): an array of exactly two elements
Param(n, t) == Construct("Param", <<n, t>>)

DecodeParam(j) ==
  IF j.k # "arr" THEN Err("invalid type")
  ELSE IF Len(j.v) # 2 THEN Err("invalid length")
  ELSE Build2(DecodeString(j.v[1]), DecodeType(j.v[2]), "Param")

\* Vec<(String, Type)>
DecodeInputs(j) ==
  IF j.k # "arr" THEN Err("invalid type")
  ELSE Collect([i \in 1..Len(j.v) |-> DecodeParam(j.v[i])])

DecodeOptionType(j) ==
  IF j.k = "null" THEN Ok(None) ELSE MapOk(DecodeType(j), "Some")

\* struct FunctionSig { inputs, output, #[serde(default)] is_c_variadic }
FunctionSig(i, o, v) == Construct("FunctionSig", <<i, o, v>>)

FunctionSigFields(fs) ==
  Build3((IF IsSome(fs[1]) THEN DecodeInputs(Unwrap(fs[1])) ELSE Missing),
         (IF IsSome(fs[2]) THEN DecodeOptionType(Unwrap(fs[2])) ELSE Ok(None)),
         (IF IsSome(fs[3]) THEN DecodeBool(Unwrap(fs[3])) ELSE Ok(FALSE)),
         "FunctionSig")

DecodeFunctionSig(j) ==
  LET fs == StructFields(j, <<K_inputs, K_output, K_is_c_variadic>>, 2)
  IN IF fs.ok THEN FunctionSigFields(fs.val) ELSE fs

\* struct Function { sig }
Function(s) == Construct("Function", <<s>>)

FunctionFields(fs) == Build1((IF IsSome(fs[1]) THEN DecodeFunctionSig(Unwrap(fs[1])) ELSE Missing), "Function")

DecodeFunction(j) ==
  LET fs == StructFields(j, <<K_sig>>, 1)
  IN IF fs.ok THEN FunctionFields(fs.val) ELSE fs

DecodeOptionFunction(j) ==
  IF j.k = "null" THEN Ok(None) ELSE MapOk(DecodeFunction(j), "Some")

\* struct ItemInner { function: Option<Function> }
ItemInner(f) == Construct("ItemInner", <<f>>)

ItemInnerFields(fs) ==
  Build1((IF IsSome(fs[1]) THEN DecodeOptionFunction(Unwrap(fs[1])) ELSE Ok(None)),
         "ItemInner")

DecodeItemInner(j) ==
  LET fs == StructFields(j, <<K_function>>, 1)
  IN IF fs.ok THEN ItemInnerFields(fs.val) ELSE fs

\* struct Item { name: Option<String>, #[serde(default)] docs, inner }
Item(n, d, i) == Construct("Item", <<n, d, i>>)

ItemFields(fs) ==
  Build3((IF IsSome(fs[1]) THEN DecodeOptionString(Unwrap(fs[1])) ELSE Ok(None)),
         (IF IsSome(fs[2]) THEN DecodeOptionString(Unwrap(fs[2])) ELSE Ok(None)),
         (IF IsSome(fs[3]) THEN DecodeItemInner(Unwrap(fs[3])) ELSE Missing),
         "Item")

DecodeItem(j) ==
  LET fs == StructFields(j, <<K_name, K_docs, K_inner>>, 3)
  IN IF fs.ok THEN ItemFields(fs.val) ELSE fs

(***************************************************************************)
(* signature_builder.rs: the renderer.                                     *)
(***************************************************************************)
RECURSIVE type_to_string(_)
RECURSIVE generic_args_to_string(_)

\* mutant: the marker without the value
OtherToString_NoRaw(val) ==
  <<"/", "*", " ", "u", "n", "k", "n", "o", "w", "n", " ", "*", "/">>

\* format!("/* unknown: {} */", val)
OtherToString(val) ==
  <<"/", "*", " ", "u", "n", "k", "n", "o", "w", "n", ":", " ">>
    \o JsonText(val) \o <<" ", "*", "/">>

\* mutant: the lifetime written before "mut "
BorrowedRefToString_LifetimeFirst(b) ==
  <<"&">>
    \o (IF IsSome(b.lifetime) THEN Unwrap(b.lifetime) \o <<" ">> ELSE <<>>)
    \o (IF b.is_mutable THEN <<"m", "u", "t", " ">> ELSE <<>>)
    \o type_to_string(b.inner_type)

\* the BorrowedRef arm of type_to_string
BorrowedRefToString(b) ==
  <<"&">>
    \o (IF b.is_mutable THEN <<"m", "u", "t", " ">> ELSE <<>>)
    \o (IF IsSome(b.lifetime) THEN Unwrap(b.lifetime) \o <<" ">> ELSE <<>>)
    \o type_to_string(b.inner_type)

\* the ResolvedPath arm of type_to_string
ResolvedPathToString(r) ==
  r.name \o (IF IsSome(r.args) THEN generic_args_to_string(Unwrap(r.args))
             ELSE <<>>)

\* the Tuple arm of type_to_string
TupleToString(ts) ==
  <<"(">> \o Join([i \in 1..Len(ts) |-> type_to_string(ts[i])], <<",", " ">>)
          \o <<")">>

\* the Slice arm of type_to_string
SliceToString(t) == <<"[">> \o type_to_string(t) \o <<"]">>

type_to_string(t) ==
  CASE t.tag = "BorrowedRef" -> BorrowedRefToString(t.borrowed_ref)
    [] t.tag = "ResolvedPath" -> ResolvedPathToString(t.resolved_path)
    [] t.tag = "Generic" -> t.generic
    [] t.tag = "Primitive" -> t.primitive
    [] t.tag = "Tuple" -> TupleToString(t.tuple)
    [] t.tag = "Slice" -> SliceToString(t.slice)
    [] t.tag = "Other" -> OtherToString(t.val)

\* mutant: no check for an empty argument list
AngleBracketedToString_AlwaysBrackets(as) ==
  <<"<">> \o Join([i \in 1..Len(as) |-> type_to_string(as[i].type)],
                  <<",", " ">>)
          \o <<">">>

\* the AngleBracketed arm of generic_args_to_string
AngleBracketedToString(as) ==
  IF as = <<>> THEN <<>>
  ELSE <<"<">> \o Join([i \in 1..Len(as) |-> type_to_string(as[i].type)],
                       <<",", " ">>)
               \o <<">">>

generic_args_to_string(g) == AngleBracketedToString(g.angle_bracketed.args)

\* the return-type part of function_sig_to_string
\* mutant: the return type appended also when it is "()"
ArrowUnlessUnit_Always(out_str) == <<" ", "-", ">", " ">> \o out_str

\* if out_str != "()" { result.push_str(" -> "); result.push_str(&out_str) }
ArrowUnlessUnit(out_str) ==
  IF out_str # <<"(", ")">> THEN <<" ", "-", ">", " ">> \o out_str ELSE <<>>

OutputToString(output) ==
  IF IsSome(output) THEN ArrowUnlessUnit(type_to_string(Unwrap(output)))
  ELSE <<>>

\* mutant: format!("{}:{}", param_name, ty_str)
ParamToString_NoSpace(p) == p[1] \o <<":">> \o type_to_string(p[2])

\* format!("{}: {}", param_name, ty_str)
ParamToString(p) == p[1] \o <<":", " ">> \o type_to_string(p[2])

function_sig_to_string(name, s) ==
  <<"f", "n", " ">> \o name \o <<"(">>
    \o Join([i \in 1..Len(s.inputs) |-> ParamToString(s.inputs[i])],
            <<",", " ">>)
    \o <<")">> \o OutputToString(s.output)

\* rustdoc_json.rs
item_to_signature_string(it) ==
  IF ~IsSome(it.inner.function) THEN None
  ELSE Some(function_sig_to_string(
              IF IsSome(it.name) THEN Unwrap(it.name)
              ELSE <<"u", "n", "k", "n", "o", "w", "n">>,
              Unwrap(it.inner.function).sig))

(***************************************************************************)
(* main.rs: RoogleIndex.                                                   *)
(***************************************************************************)
RoogleItem(name, doc) == [name |-> name, doc |-> doc]

\* RoogleIndex::new
new == <<>>

\* mutant: an item whose name is already in the index is not added again
add_item_Dedup(its, name, doc) ==
  IF \E i \in 1..Len(its) : its[i].name = name THEN its
  ELSE Append(its, RoogleItem(name, doc))

\* RoogleIndex::add_item: self.items.push(item)
add_item(its, name, doc) == Append(its, RoogleItem(name, doc))

\* RoogleIndex::search_by_name: iter().filter(..).collect(); the result holds
\* references into items, modelled as their positions
RECURSIVE FilterFrom(_, _, _)
FilterFrom(its, i, keyword) ==
  IF i > Len(its) THEN <<>>
  ELSE (IF StrContains(its[i].name, keyword) THEN <<i>> ELSE <<>>)
         \o FilterFrom(its, i + 1, keyword)

search_by_name(its, keyword) == FilterFrom(its, 1, keyword)

(***************************************************************************)
(* The inputs: JSON documents of bounded depth.                            *)
(***************************************************************************)
S_T == <<"T">>
S_u8 == <<"u", "8">>
S_str == <<"s", "t", "r">>
S_unit == <<"(", ")">>
S_lt == <<"'", "a">>
S_Vec == <<"V", "e", "c">>
S_quote == <<"a", "\"">>
S_load == <<"l", "o", "a", "d">>
K_raw_pointer == <<"r","a","w","_","p","o","i","n","t","e","r">>
K_parenthesized == <<"p","a","r","e","n","t","h","e","s","i","z","e","d">>

Obj1(k1, v1) == JObj(k1 :> v1)
Obj2(k1, v1, k2, v2) == JObj(k1 :> v1 @@ k2 :> v2)
Obj3(k1, v1, k2, v2, k3, v3) == JObj(k1 :> v1 @@ k2 :> v2 @@ k3 :> v3)

J_u8 == Obj1(K_primitive, JStr(S_u8))
J_T == Obj1(K_generic, JStr(S_T))
J_unit == Obj1(K_tuple, JArr(<<>>))
J_rawptr == Obj1(K_raw_pointer,
                 Obj2(K_is_mutable, JBool(FALSE), K_type, J_u8))
\* a reference without its inner type
J_badref == Obj1(K_borrowed_ref, Obj1(K_is_mutable, JBool(TRUE)))

\* a path with no, null, empty and defaulted generic arguments
PathLeaves ==
  { Obj1(K_resolved_path, Obj1(K_name, JStr(S_Vec))),
    Obj1(K_resolved_path, Obj2(K_name, JStr(S_Vec), K_args, JNull)),
    Obj1(K_resolved_path,
         Obj2(K_name, JStr(S_Vec), K_args,
              Obj1(K_angle_bracketed, JObj(<<>>)))),
    Obj1(K_resolved_path,
         Obj2(K_name, JStr(S_Vec), K_args,
              Obj1(K_angle_bracketed, Obj1(K_args, JArr(<<>>))))) }

TypeLeaves ==
  { J_u8, J_T, J_unit, J_rawptr, J_badref,
    Obj1(K_primitive, JStr(S_unit)),
    Obj1(K_generic, JNum(7)),
    JNull, JStr(S_quote), JArr(<<JStr(S_T)>>) } \cup PathLeaves

\* the lifetime field of a reference: absent, null or 'a
Lifetimes == <<<<>>, K_lifetime :> JNull, K_lifetime :> JStr(S_lt)>>

\* the values that hold the type t in one recursive field
WrapWith(w, t) ==
  CASE w \in 1..6 ->
         Obj1(K_borrowed_ref,
              JObj(K_is_mutable :> JBool(w > 3) @@ K_type :> t
                     @@ Lifetimes[((w - 1) % 3) + 1]))
    [] w = 7 -> Obj1(K_slice, t)
    [] w = 8 -> Obj1(K_tuple, JArr(<<t>>))
    [] w = 9 -> Obj1(K_tuple, JArr(<<t, J_u8>>))
    [] w = 10 -> Obj1(K_tuple, JArr(<<J_T, t>>))
    [] w = 11 ->
         Obj1(K_resolved_path,
              Obj2(K_name, JStr(S_Vec), K_args,
                   Obj1(K_angle_bracketed,
                        Obj1(K_args, JArr(<<Obj1(K_type, t)>>)))))
    [] w = 12 ->
         Obj1(K_resolved_path,
              Obj2(K_name, JStr(S_Vec), K_args,
                   Obj1(K_angle_bracketed,
                        Obj2(K_args,
                             JArr(<<Obj1(K_type, t), Obj1(K_type, J_u8)>>),
                             K_constraints, JArr(<<>>)))))

Wrapped(S) == { WrapWith(w, t) : w \in 1..12, t \in S }

RECURSIVE TypeJson(_)
TypeJson(d) ==
  IF d = 0 THEN TypeLeaves
  ELSE TypeLeaves \cup Wrapped(TypeJson(d - 1))

\* a payload under each discriminator key that its variant accepts, and one
\* that it rejects
Discriminators == <<K_borrowed_ref, K_resolved_path, K_generic, K_primitive,
                    K_tuple, K_slice>>

GoodPayload(key) ==
  CASE key = K_borrowed_ref -> Obj2(K_is_mutable, JBool(FALSE), K_type, J_T)
    [] key = K_resolved_path -> Obj1(K_name, JStr(S_Vec))
    [] key = K_generic -> JStr(S_T)
    [] key = K_primitive -> JStr(S_u8)
    [] key = K_tuple -> JArr(<<J_u8>>)
    [] key = K_slice -> J_u8

BadPayloads(key) ==
  CASE key = K_borrowed_ref ->
         { Obj1(K_is_mutable, JBool(TRUE)),
           Obj1(K_type, J_u8),
           Obj3(K_is_mutable, JBool(TRUE), K_lifetime, JNum(7), K_type, J_u8),
           Obj2(K_is_mutable, JStr(S_T), K_type, J_u8),
           JArr(<<JBool(TRUE), JNull>>),
           JNull }
    [] key = K_resolved_path ->
         { JObj(<<>>),
           Obj1(K_args, Obj1(K_angle_bracketed, JObj(<<>>))),
           Obj2(K_name, JStr(S_Vec), K_args, Obj1(K_parenthesized, JNull)),
           Obj2(K_name, JStr(S_Vec), K_args,
                Obj1(K_angle_bracketed,
                     Obj1(K_args, JArr(<<Obj1(K_lifetime, JStr(S_lt))>>)))),
           Obj2(K_name, JStr(S_Vec), K_args,
                Obj1(K_angle_bracketed,
                     Obj1(K_constraints, JArr(<<JNum(7)>>)))),
           JArr(<<JStr(S_Vec)>>) }
    [] key = K_generic -> { JNum(7), JNull }
    [] key = K_primitive -> { JBool(TRUE), JArr(<<JStr(S_u8)>>) }
    [] key = K_tuple -> { JStr(S_T), J_u8 }
    [] key = K_slice -> {}

\* the sequence forms that the nested structs accept
SeqForms ==
  { Obj1(K_borrowed_ref, JArr(<<JBool(TRUE), JStr(S_lt), J_u8>>)),
    Obj1(K_resolved_path, JArr(<<JStr(S_Vec), JNull>>)),
    Obj1(K_resolved_path,
         Obj2(K_name, JStr(S_Vec), K_args,
              Obj1(K_angle_bracketed,
                   JArr(<<JArr(<<Obj1(K_type, J_T)>>)>>)))) }

\* one discriminator key with a payload its variant rejects
Malformed ==
  UNION { { Obj1(Discriminators[i], b) : b \in BadPayloads(Discriminators[i]) }
            : i \in 1..Len(Discriminators) }

\* two discriminator keys: both accepted, or the first rejected
Overlaps ==
  UNION { { Obj2(Discriminators[i], GoodPayload(Discriminators[i]),
                 Discriminators[j], GoodPayload(Discriminators[j])) }
          \cup
          { Obj2(Discriminators[i], b,
                 Discriminators[j], GoodPayload(Discriminators[j]))
              : b \in BadPayloads(Discriminators[i]) }
            : i \in 1..Len(Discriminators), j \in 1..Len(Discriminators) }

Special == Malformed \cup Overlaps \cup SeqForms

TypeInputs(depth) == TypeJson(depth) \cup Special \cup Wrapped(Special)

\* the types of the parameters and of the output of a generated signature
SigTypes ==
  { J_u8, J_unit, J_rawptr, J_badref,
    Obj1(K_primitive, JStr(S_unit)),
    Obj1(K_borrowed_ref,
         Obj3(K_is_mutable, JBool(TRUE), K_lifetime, JStr(S_lt),
              K_type, Obj1(K_primitive, JStr(S_str)))),
    Obj1(K_tuple, JArr(<<J_u8, J_T>>)),
    Obj1(K_resolved_path,
         Obj2(K_name, JStr(S_Vec), K_args,
              Obj1(K_angle_bracketed,
                   Obj1(K_args, JArr(<<Obj1(K_type, J_T)>>))))) }

ParamName(i) == <<"p", Alphabet[Ord("0") + i]>>

RECURSIVE ParamLists(_)
ParamLists(n) ==
  IF n = 0 THEN { <<>> }
  ELSE LET S == ParamLists(n - 1)
       IN S \cup { Append(ps, JArr(<<JStr(ParamName(Len(ps) + 1)), t>>))
                     : ps \in { q \in S : Len(q) = n - 1 }, t \in SigTypes }

SigJson(n) ==
  { JObj(K_inputs :> JArr(ps) @@ o @@ v)
      : ps \in ParamLists(n),
        o \in { <<>>, K_output :> JNull } \cup { K_output :> t : t \in SigTypes },
        v \in { <<>>, K_is_c_variadic :> JBool(TRUE) } }

\* signatures that FunctionSig rejects, and its sequence form
BadSigJson ==
  { JObj(<<>>),
    Obj1(K_output, J_u8),
    Obj1(K_inputs, JNull),
    Obj1(K_inputs, JArr(<<JArr(<<JStr(ParamName(1))>>)>>)),
    Obj1(K_inputs, JArr(<<JArr(<<JStr(ParamName(1)), J_u8, J_u8>>)>>)),
    Obj1(K_inputs, JArr(<<JArr(<<JNum(7), J_u8>>)>>)),
    Obj2(K_inputs, JArr(<<>>), K_is_c_variadic, JNull),
    JArr(<<JArr(<<>>), J_unit>>),
    JArr(<<JArr(<<>>)>>) }

ItemInputs(params) ==
  { JObj(K_inner :> Obj1(K_function, Obj1(K_sig, s)) @@ n)
      : s \in SigJson(params) \cup BadSigJson,
        n \in { <<>>, K_name :> JStr(S_load) } }
  \cup
  { JObj(K_inner :> f @@ n)
      : f \in { JObj(<<>>), Obj1(K_function, JNull) },
        n \in { <<>>, K_name :> JNull, K_name :> JStr(S_load), K_name :> JNum(7) } }
  \cup
  { JObj(<<>>), JNull }

Names == { <<"f", "o", "o">>, <<"b", "a", "r">>, <<"b", "a", "z">> }
Docs == { <<"d">>, <<>> }
Keywords == { <<"b", "a">>, <<"o">>, <<>>, <<"b", "a", "z">>, <<"z", "z">> }

(***************************************************************************)
(* The type pipeline: a JSON value is deserialized as a Type and rendered. *)
(***************************************************************************)
Init == /\ pc = "start"
        /\ tjson \in TypeInputs(MaxDepth)
        /\ ty = None
        /\ tstr = None
        /\ item = JNull
        /\ sig = None
        /\ sigstr = None
        /\ items = new
        /\ found = None
        /\ added = <<>>

\* serde_json::from_value::<Type>
DeserializeType ==
  /\ pc = "start"
  /\ ty' = DecodeType(tjson)
  /\ pc' = "decoded"
  /\ UNCHANGED <<tjson, tstr, item, sig, sigstr, items, found, added>>

\* type_to_string(&ty)
RenderType ==
  /\ pc = "decoded"
  /\ ty.ok
  /\ tstr' = type_to_string(ty.val)
  /\ pc' = "rendered"
  /\ UNCHANGED <<tjson, ty, item, sig, sigstr, items, found, added>>

Next == DeserializeType \/ RenderType

Spec == Init /\ [][Next]_vars

(***************************************************************************)
(* The signature pipeline: an item is deserialized and its signature       *)
(* string built.                                                           *)
(***************************************************************************)
InitSig == /\ pc = "start"
           /\ item \in ItemInputs(MaxParams)
           /\ tjson = JNull
           /\ ty = None
           /\ tstr = None
           /\ sig = None
           /\ sigstr = None
           /\ items = new
           /\ found = None
           /\ added = <<>>

\* deserializing one Item of RustDocJson.index
DeserializeItem ==
  /\ pc = "start"
  /\ sig' = DecodeItem(item)
  /\ pc' = "decoded"
  /\ UNCHANGED <<tjson, ty, tstr, item, sigstr, items, found, added>>

\* item_to_signature_string(&item)
ItemToSignatureString ==
  /\ pc = "decoded"
  /\ sig.ok
  /\ sigstr' = item_to_signature_string(sig.val)
  /\ pc' = "rendered"
  /\ UNCHANGED <<tjson, ty, tstr, item, sig, items, found, added>>

NextSig == DeserializeItem \/ ItemToSignatureString

SpecSig == InitSig /\ [][NextSig]_vars

(***************************************************************************)
(* The index: add_item and search_by_name on one RoogleIndex.  added is    *)
(* the history of the add_item calls; found is the keyword and the result  *)
(* of the search whose result is still borrowed.                           *)
(***************************************************************************)
InitIndex == /\ pc = "index"
             /\ items = new
             /\ found = None
             /\ added = <<>>
             /\ tjson = JNull
             /\ ty = None
             /\ tstr = None
             /\ item = JNull
             /\ sig = None
             /\ sigstr = None

AddItem(name, doc) ==
  /\ pc = "index"
  /\ Len(added) < MaxItems
  /\ items' = add_item(items, name, doc)
  /\ added' = Append(added, <<name, doc>>)
  /\ found' = None
  /\ UNCHANGED <<pc, tjson, ty, tstr, item, sig, sigstr>>

SearchByName(keyword) ==
  /\ pc = "index"
  /\ found' = Some([keyword |-> keyword,
                    result |-> search_by_name(items, keyword)])
  /\ UNCHANGED <<pc, tjson, ty, tstr, item, sig, sigstr, items, added>>

NextIndex ==
  \/ \E name \in Names, doc \in Docs : AddItem(name, doc)
  \/ \E keyword \in Keywords : SearchByName(keyword)

SpecIndex == InitIndex /\ [][NextIndex]_vars

(***************************************************************************)
(* Definitions used to state the properties.                               *)
(***************************************************************************)
Decoded == pc \in {"decoded", "rendered"}

\* the Type Expressions in t, t first
RECURSIVE SubTypes(_)
RECURSIVE SubTypesOfAll(_)
SubTypesOfAll(ts) ==
  IF ts = <<>> THEN <<>>
  ELSE SubTypes(Head(ts)) \o SubTypesOfAll(Tail(ts))

SubTypes(t) ==
  <<t>> \o
  CASE t.tag = "BorrowedRef" -> SubTypes(t.borrowed_ref.inner_type)
    [] t.tag = "ResolvedPath" ->
         IF t.resolved_path.args = None THEN <<>>
         ELSE LET as == Unwrap(t.resolved_path.args).angle_bracketed.args
              IN SubTypesOfAll([i \in 1..Len(as) |-> as[i].type])
    [] t.tag = "Tuple" -> SubTypesOfAll(t.tuple)
    [] t.tag = "Slice" -> SubTypes(t.slice)
    [] OTHER -> <<>>

\* the structural requirement of each variant on a JSON value
IsStrJ(j) == j.k = "str"
IsOptStrJ(j) == j.k \in {"null", "str"}
IsGenericArgJ(j) == HasKey(j, K_type)
IsGenericArgVecJ(j) ==
  j.k = "arr" /\ \A i \in 1..Len(j.v) : IsGenericArgJ(j.v[i])
IsStrVecJ(j) == j.k = "arr" /\ \A i \in 1..Len(j.v) : IsStrJ(j.v[i])

IsAngleBracketedJ(j) ==
  \/ /\ j.k = "obj"
     /\ K_args \in DOMAIN j.v => IsGenericArgVecJ(j.v[K_args])
     /\ K_constraints \in DOMAIN j.v => IsStrVecJ(j.v[K_constraints])
  \/ /\ j.k = "arr"
     /\ Len(j.v) <= 2
     /\ Len(j.v) >= 1 => IsGenericArgVecJ(j.v[1])
     /\ Len(j.v) >= 2 => IsStrVecJ(j.v[2])

IsOptGenericArgsJ(j) ==
  \/ j.k = "null"
  \/ HasKey(j, K_angle_bracketed) /\ IsAngleBracketedJ(j.v[K_angle_bracketed])

IsBorrowedRefJ(j) ==
  \/ /\ j.k = "obj"
     /\ K_is_mutable \in DOMAIN j.v /\ j.v[K_is_mutable].k = "bool"
     /\ K_lifetime \in DOMAIN j.v => IsOptStrJ(j.v[K_lifetime])
     /\ K_type \in DOMAIN j.v
  \/ /\ j.k = "arr"
     /\ Len(j.v) = 3
     /\ j.v[1].k = "bool"
     /\ IsOptStrJ(j.v[2])

IsResolvedPathJ(j) ==
  \/ /\ j.k = "obj"
     /\ K_name \in DOMAIN j.v /\ IsStrJ(j.v[K_name])
     /\ K_args \in DOMAIN j.v => IsOptGenericArgsJ(j.v[K_args])
  \/ /\ j.k = "arr"
     /\ Len(j.v) = 2
     /\ IsStrJ(j.v[1])
     /\ IsOptGenericArgsJ(j.v[2])

Meets(name, j) ==
  CASE name = "BorrowedRef" ->
         HasKey(j, K_borrowed_ref) /\ IsBorrowedRefJ(j.v[K_borrowed_ref])
    [] name = "ResolvedPath" ->
         HasKey(j, K_resolved_path) /\ IsResolvedPathJ(j.v[K_resolved_path])
    [] name = "Generic" -> HasKey(j, K_generic) /\ IsStrJ(j.v[K_generic])
    [] name = "Primitive" -> HasKey(j, K_primitive) /\ IsStrJ(j.v[K_primitive])
    [] name = "Tuple" -> HasKey(j, K_tuple) /\ j.v[K_tuple].k = "arr"
    [] name = "Slice" -> HasKey(j, K_slice)
    [] name = "Other" -> TRUE

\* the order the specification states: Reference, NamedPath, GenericParam,
\* Primitive, Tuple, Slice, Opaque
StatedOrder == <<"BorrowedRef", "ResolvedPath", "Generic", "Primitive",
                 "Tuple", "Slice", "Other">>

MetBy(j) == { i \in 1..Len(StatedOrder) : Meets(StatedOrder[i], j) }

FirstMet(j) == CHOOSE i \in MetBy(j) : \A h \in MetBy(j) : i <= h

Unrecognized(j) == MetBy(j) = {Len(StatedOrder)}

\* a discriminator key whose payload is a map without a required field
MissingInner(j, key) ==
  /\ HasKey(j, key)
  /\ j.v[key].k = "obj"
  /\ \/ key = K_borrowed_ref /\ ~({K_is_mutable, K_type} \subseteq DOMAIN j.v[key].v)
     \/ key = K_resolved_path /\ K_name \notin DOMAIN j.v[key].v

DiscriminatorKeys == { Discriminators[i] : i \in 1..Len(Discriminators) }

(***************************************************************************)
(* C1.  As stated: decoding a type value that carries the discriminator    *)
(* key of a variant but lacks the variant's required inner fields is a     *)
(* hard decode error and never an Opaque value, and only values without    *)
(* any discriminator key become Opaque.                                    *)
(***************************************************************************)
C1_HardErrorAsStated ==
  Decoded =>
    /\ (\E key \in DiscriminatorKeys : MissingInner(tjson, key)) => ~ty.ok
    /\ (ty.ok /\ ty.val.tag = "Other") =>
         ~(IsObj(tjson) /\ DOMAIN tjson.v \cap DiscriminatorKeys # {})

\* C1 as amended: decoding a type value that carries the discriminator key of
\* a variant but lacks the variant's required inner fields is never a decode
\* error and never yields that variant; when the value carries no other
\* discriminator key it decodes to Opaque holding the whole original value.
C1_MissingInnerIsOpaque ==
  Decoded =>
    \A key \in DiscriminatorKeys :
      MissingInner(tjson, key) =>
        /\ ty.ok
        /\ key = K_borrowed_ref => ty.val.tag # "BorrowedRef"
        /\ key = K_resolved_path => ty.val.tag # "ResolvedPath"
        /\ DOMAIN tjson.v \cap DiscriminatorKeys = {key} => ty.val = Other(tjson)

C1_Witness ==
  /\ pc = "decoded"
  /\ tjson = J_badref
  /\ ty = Ok(Other(J_badref))

(***************************************************************************)
(* C2.  A JSON value that meets the structural requirements of more than   *)
(* one variant decodes to the variant that comes first in the order        *)
(* Reference, NamedPath, GenericParam, Primitive, Tuple, Slice, Opaque.    *)
(***************************************************************************)
C2_FirstVariantWins ==
  (Decoded /\ Cardinality(MetBy(tjson)) >= 2) =>
    /\ ty.ok
    /\ ty.val.tag = StatedOrder[FirstMet(tjson)]

C2_Witness ==
  /\ pc = "decoded"
  /\ tjson = Obj2(K_generic, JStr(S_T), K_primitive, JStr(S_u8))
  /\ ty = Ok(Generic(S_T))

(***************************************************************************)
(* C4.  Decoding a JSON value as a Type never fails, and a value that      *)
(* meets the requirements of none of Reference, NamedPath, GenericParam,   *)
(* Primitive, Tuple, Slice decodes to Opaque holding the original value.   *)
(***************************************************************************)
C4_UnrecognizedIsOpaque ==
  Decoded =>
    /\ ty.ok
    /\ Unrecognized(tjson) => ty.val = Other(tjson)
    /\ ty.val.tag = "Other" => ty.val.val = tjson

C4_Witness ==
  /\ pc = "decoded"
  /\ tjson = J_rawptr
  /\ ty = Ok(Other(J_rawptr))

(***************************************************************************)
(* C9.  An unrecognized or malformed value in a recursive field (the       *)
(* referent of a Reference, the element of a Slice, an element of a Tuple, *)
(* the type of an entry of a NamedPath's generic arguments) becomes Opaque *)
(* at that place only: the enclosing value still decodes to its own        *)
(* variant.                                                                *)
(***************************************************************************)
\* the value of the recursive fields of the top-level value j, with the
\* place each takes in the decoded value t
RefField(j) == IF j.v[K_borrowed_ref].k = "obj" THEN j.v[K_borrowed_ref].v[K_type]
               ELSE j.v[K_borrowed_ref].v[3]

PathArgs(j) ==
  LET p == j.v[K_resolved_path]
      a == IF p.k = "obj"
           THEN (IF K_args \in DOMAIN p.v THEN p.v[K_args] ELSE JNull)
           ELSE p.v[2]
      b == IF a.k = "null" THEN JObj(<<>>) ELSE a.v[K_angle_bracketed]
  IN IF b.k = "obj"
     THEN (IF K_args \in DOMAIN b.v THEN b.v[K_args].v ELSE <<>>)
     ELSE (IF Len(b.v) >= 1 THEN b.v[1].v ELSE <<>>)

Marker(raw) ==
  <<"/", "*", " ", "u", "n", "k", "n", "o", "w", "n", ":", " ">>
    \o JsonText(raw) \o <<" ", "*", "/">>

\* t with a type name that reads as the marker in place of each Opaque subtree
RECURSIVE NameOpaque(_)
NameOpaque(t) ==
  CASE t.tag = "BorrowedRef" ->
         BorrowedRef([t.borrowed_ref EXCEPT
                        !.inner_type = NameOpaque(t.borrowed_ref.inner_type)])
    [] t.tag = "ResolvedPath" ->
         IF t.resolved_path.args = None THEN t
         ELSE LET g == Unwrap(t.resolved_path.args).angle_bracketed
              IN ResolvedPath(
                   [t.resolved_path EXCEPT
                      !.args = Some(AngleBracketed(
                         [g EXCEPT !.args =
                            [i \in 1..Len(g.args) |->
                               GenericArgType(NameOpaque(g.args[i].type))]]))])
    [] t.tag = "Tuple" ->
         Tuple([i \in 1..Len(t.tuple) |-> NameOpaque(t.tuple[i])])
    [] t.tag = "Slice" -> Slice(NameOpaque(t.slice))
    [] t.tag = "Other" -> Primitive(Marker(t.val))
    [] OTHER -> t

IsString(s) ==
  /\ DOMAIN s = 1..Len(s)
  /\ \A i \in 1..Len(s) : \E c \in 1..Len(Alphabet) : s[i] = Alphabet[c]

HasOpaque(t) == \E i \in 1..Len(SubTypes(t)) : SubTypes(t)[i].tag = "Other"

SigOf(t) == FunctionSig(<<Param(ParamName(1), t)>>, Some(t), FALSE)

C5_OpaqueContained ==
  (pc = "rendered" /\ HasOpaque(ty.val)) =>
    /\ IsString(tstr)
    /\ tstr = type_to_string(NameOpaque(ty.val))
    /\ \A i \in 1..Len(SubTypes(ty.val)) :
         SubTypes(ty.val)[i].tag = "Other" =>
           StrContains(tstr, Marker(SubTypes(ty.val)[i].val))
    /\ IsString(function_sig_to_string(S_load, SigOf(ty.val)))
    /\ function_sig_to_string(S_load, SigOf(ty.val))
         = function_sig_to_string(S_load, SigOf(NameOpaque(ty.val)))

C5_Witness ==
  /\ pc = "rendered"
  /\ ty = Ok(BorrowedRef(BorrowedRefType(FALSE, None,
                                         Tuple(<<Generic(S_T), Other(JNull)>>))))
  /\ tstr = <<"&", "(", "T", ",", " ">> \o Marker(JNull) \o <<")">>

(***************************************************************************)
(* C6.  A NamedPath renders as its bare name when its generic arguments    *)
(* are absent and when the angle-bracketed list is empty, and otherwise as *)
(* name + "<" + the renderings of the arguments joined by ", " + ">".      *)
(***************************************************************************)
\* the strings of ss with sep between them, built from the right
RECURSIVE Separated(_, _)
Separated(ss, sep) ==
  IF Len(ss) = 0 THEN <<>>
  ELSE IF Len(ss) = 1 THEN ss[1]
  ELSE Separated(SubSeq(ss, 1, Len(ss) - 1), sep) \o sep \o ss[Len(ss)]

PathRendering(r) ==
  IF r.args = None \/ Unwrap(r.args).angle_bracketed.args = <<>> THEN r.name
  ELSE LET as == Unwrap(r.args).angle_bracketed.args
       IN r.name \o <<"<">>
            \o Separated([i \in 1..Len(as) |-> type_to_string(as[i].type)],
                         <<",", " ">>)
            \o <<">">>

C6_NamedPathRendering ==
  pc = "rendered" =>
    /\ ty.val.tag = "ResolvedPath" => tstr = PathRendering(ty.val.resolved_path)
    /\ \A i \in 1..Len(SubTypes(ty.val)) :
         SubTypes(ty.val)[i].tag = "ResolvedPath" =>
           type_to_string(SubTypes(ty.val)[i])
             = PathRendering(SubTypes(ty.val)[i].resolved_path)

C6_Witness ==
  /\ pc = "rendered"
  /\ ty = Ok(ResolvedPath(ResolvedPathStruct(
               S_Vec, Some(AngleBracketed(AngleBracketedArgs(<<>>, <<>>))))))
  /\ tstr = S_Vec

(***************************************************************************)
(* C8.  A Reference renders as "&", then "mut " only if mutable, then the  *)
(* lifetime and one space only if a lifetime is present, then the          *)
(* rendering of the referent, also when references nest.                   *)
(***************************************************************************)
RefRendering(b) ==
  CASE ~b.is_mutable /\ b.lifetime = None ->
         <<"&">> \o type_to_string(b.inner_type)
    [] b.is_mutable /\ b.lifetime = None ->
         <<"&", "m", "u", "t", " ">> \o type_to_string(b.inner_type)
    [] ~b.is_mutable /\ b.lifetime # None ->
         <<"&">> \o b.lifetime[1] \o <<" ">> \o type_to_string(b.inner_type)
    [] b.is_mutable /\ b.lifetime # None ->
         <<"&", "m", "u", "t", " ">> \o b.lifetime[1] \o <<" ">>
           \o type_to_string(b.inner_type)

C8_ReferenceRendering ==
  pc = "rendered" =>
    /\ ty.val.tag = "BorrowedRef" => tstr = RefRendering(ty.val.borrowed_ref)
    /\ \A i \in 1..Len(SubTypes(ty.val)) :
         SubTypes(ty.val)[i].tag = "BorrowedRef" =>
           type_to_string(SubTypes(ty.val)[i])
             = RefRendering(SubTypes(ty.val)[i].borrowed_ref)

C8_Witness ==
  /\ pc = "rendered"
  /\ ty = Ok(BorrowedRef(BorrowedRefType(TRUE, Some(S_lt),
               BorrowedRef(BorrowedRefType(FALSE, None, Primitive(S_u8))))))
  /\ tstr = <<"&", "m", "u", "t", " ", "'", "a", " ", "&", "u", "8">>

(***************************************************************************)
(* C3.  A signature whose output is absent and the signature with the same *)
(* parameters whose output is the empty Tuple render to the same string,   *)
(* which ends with the ")" of the parameter list: no " -> " follows it.    *)
(***************************************************************************)
RenderedSig == pc = "rendered" /\ sigstr # None

TheSig == Unwrap(sig.val.inner.function).sig

TheName == IF sig.val.name = None THEN <<"u", "n", "k", "n", "o", "w", "n">>
           ELSE sig.val.name[1]

ParamEntries(s) ==
  [i \in 1..Len(s.inputs) |->
     s.inputs[i][1] \o <<":", " ">> \o type_to_string(s.inputs[i][2])]

SigHead(name, s) ==
  <<"f", "n", " ">> \o name \o <<"(">>
    \o Separated(ParamEntries(s), <<",", " ">>) \o <<")">>

UnitTuple == Tuple(<<>>)

C3_UnitReturnEquivalence ==
  (RenderedSig /\ (TheSig.output = None \/ TheSig.output = Some(UnitTuple))) =>
    /\ sigstr[1] = SigHead(TheName, TheSig)
    /\ sigstr[1] = function_sig_to_string(TheName,
                                          [TheSig EXCEPT !.output = None])
    /\ sigstr[1] = function_sig_to_string(TheName,
                                          [TheSig EXCEPT !.output = Some(UnitTuple)])

C3_Witness ==
  /\ RenderedSig
  /\ Len(TheSig.inputs) = 2
  /\ TheSig.output = Some(UnitTuple)
  /\ sigstr[1] = SigHead(S_load, TheSig)

(***************************************************************************)
(* C7.  function_sig_to_string(name, sig) is "fn " + name + "(" + the      *)
(* entries "<param name>: <rendered type>" in input order joined by ", " + *)
(* ")", followed by " -> " + the rendered return type exactly when the     *)
(* output is present and does not render to "()".                          *)
(***************************************************************************)
HasArrow(s) ==
  /\ s.output # None
  /\ type_to_string(s.output[1]) # <<"(", ")">>

C7_SignatureFormat ==
  RenderedSig =>
    sigstr[1] = SigHead(TheName, TheSig)
                  \o (IF HasArrow(TheSig)
                      THEN <<" ", "-", ">", " ">> \o type_to_string(TheSig.output[1])
                      ELSE <<>>)

C7_Witness ==
  /\ RenderedSig
  /\ Len(TheSig.inputs) = 2
  /\ TheSig.output = Some(Tuple(<<Primitive(S_u8), Generic(S_T)>>))
  /\ sig.val.name = None
  /\ StrContains(sigstr[1], <<")", " ", "-", ">", " ", "(", "u", "8", ",", " ", "T", ")">>)

(***************************************************************************)
(* C10.  After any sequence of add_item and search_by_name calls on a new  *)
(* index, items is the sequence of the (name, doc) pairs passed to         *)
(* add_item, in call order and with duplicates kept; search_by_name        *)
(* returns exactly the items whose name contains the keyword, in index     *)
(* order, and leaves items as it is.                                       *)
(***************************************************************************)
Occurs(s, p) == \E i \in 0..(Len(s) - Len(p)) : SubSeq(s, i + 1, i + Len(p)) = p

C10_IndexKeepsAddedItems ==
  /\ Len(items) = Len(added)
  /\ \A i \in 1..Len(added) :
       items[i].name = added[i][1] /\ items[i].doc = added[i][2]
  /\ found # None =>
       LET r == found[1].result
           kw == found[1].keyword
       IN /\ \A h \in 1..Len(r) : r[h] \in 1..Len(items)
          /\ \A h \in 1..(Len(r) - 1) : r[h] < r[h + 1]
          /\ \A i \in 1..Len(items) :
               Occurs(items[i].name, kw) <=> \E h \in 1..Len(r) : r[h] = i

C10_Witness ==
  /\ Len(items) = 3
  /\ items[1] = items[3]
  /\ items[1].name = <<"b", "a", "r">>
  /\ items[2].name = <<"f", "o", "o">>
  /\ found # None
  /\ found[1].keyword = <<"b", "a">>
  /\ found[1].result = <<1, 3>>

====
